---- MODULE Spec2Model ----
(***************************************************************************)
(* Capacity allocation and waitlist engine of the conference booking       *)
(* system: src/services/bookingService.js over the PostgreSQL tables of    *)
(* createTables (src/test-routes.js 282-344).                              *)
(*                                                                         *)
(* A database state is a record                                            *)
(*   [available_slots : conference -> Int,                                 *)
(*    bookings        : booking_id -> row,                                 *)
(*    waitlist        : booking_id -> row]                                 *)
(* Every SQL statement of the service is an operator from database state   *)
(* to database state; every service method is a step function over a       *)
(* transaction record whose pc names the next statement.  Spec runs each   *)
(* method to completion as one step; SpecConc interleaves the statements   *)
(* of two calls under READ COMMITTED row locking.                          *)
(***************************************************************************)
EXTENDS Integers, FiniteSets, Sequences, TLC

\* ------------------------------------------------------------------ bounds
NumUsers == 4
NumClients == 3
MaxTime == 2
MaxBookings == 4
MaxSetup == 3

\* one unit of time is one hour; 60 * 60 * 1000 ms in the source
GracePeriod == 1

NULL == -1
NoConference == 0
NoUser == 0

Users == 1..NumUsers

\* the users who send requests when every conference is open to requests
Clients == 1..NumClients

\* rows of the conferences table (name, start_time, end_time, total_slots);
\* the engine only reads these columns, available_slots is state.
conferences ==
  <<[start_time |-> 1, end_time |-> 3, total_slots |-> 2],
    [start_time |-> 2, end_time |-> 4, total_slots |-> 1],
    [start_time |-> 3, end_time |-> 5, total_slots |-> 1]>>

Confs == DOMAIN conferences

\* ------------------------------------------------------------- utilities
Max(S) == CHOOSE x \in S : \A y \in S : y <= x

Min(S) == CHOOSE x \in S : \A y \in S : x <= y

Restrict(f, S) == [x \in S |-> f[x]]

\* all orderings of a finite set, as sequences without repetition
Orderings(S) ==
  {s \in [1..Cardinality(S) -> S] : \A i, j \in DOMAIN s : i # j => s[i] # s[j]}

\* -------------------------------------------------------- database state
EmptyDb ==
  [available_slots |-> [c \in Confs |-> conferences[c].total_slots],
   bookings |-> <<>>,
   waitlist |-> <<>>]

BookingIds(V) == DOMAIN V.bookings

WaitlistOf(V, c) == {b \in DOMAIN V.waitlist : V.waitlist[b].conference_name = c}

\* uuidv4(): an identifier no row uses.  Identifiers are opaque, so the
\* model takes a canonical one: the first unused identifier of the series
\* reserved for the (conference, user) pair.  `taken` are identifiers other
\* transactions hold uncommitted.
PairId(conferenceName, userId) == (conferenceName - 1) * NumUsers + userId

uuidv4(V, taken, conferenceName, userId) ==
  LET used == BookingIds(V) \cup taken
      series == {PairId(conferenceName, userId) + k * NumUsers * Cardinality(Confs) :
                   k \in 0..Cardinality(used)}
  IN Min(series \ used)

\* DEFAULT CURRENT_TIMESTAMP of a new bookings row and of its waitlist row.
\* created_at is only ever compared among the rows of one conference
\* (ORDER BY created_at in reorderWaitlist), so the model keeps the rank of
\* the row among the rows of its conference.
CurrentTimestamp(V, conferenceName) ==
  Cardinality({b \in BookingIds(V) : V.bookings[b].conference_name = conferenceName}) + 1

\* ------------------------------------------------------ read-only queries
getConferenceByName(V, name) ==
  IF name \in Confs
  THEN [name |-> name,
        start_time |-> conferences[name].start_time,
        end_time |-> conferences[name].end_time,
        total_slots |-> conferences[name].total_slots,
        available_slots |-> V.available_slots[name]]
  ELSE [name |-> NoConference]

getUserById(userId) == userId \in Users

\* bookConference without its check for a started conference
hasConferenceStartedNever(name, now) == FALSE

\* the comparison that lets the instant of the start still count as before
hasConferenceStartedStrict(name, now) == conferences[name].start_time < now

hasConferenceStarted(name, now) == conferences[name].start_time <= now

\* the started sweep finding no conference
getStartedConferencesNone(now) == {}

getStartedConferences(now) == {c \in Confs : conferences[c].start_time <= now}

\* the existing-booking query with status = 'CONFIRMED' only
hasExistingBookingConfirmedOnly(V, userId, conferenceName) ==
  \E b \in BookingIds(V) :
    /\ V.bookings[b].user_id = userId
    /\ V.bookings[b].conference_name = conferenceName
    /\ V.bookings[b].status = "CONFIRMED"

hasExistingBooking(V, userId, conferenceName) ==
  \E b \in BookingIds(V) :
    /\ V.bookings[b].user_id = userId
    /\ V.bookings[b].conference_name = conferenceName
    /\ V.bookings[b].status # "CANCELED"

hasTimeOverlap(start1, end1, start2, end2) == start1 < end2 /\ start2 < end1

\* the conflict query with b.status = 'CONFIRMED' only
hasConflictingBookingConfirmedOnly(V, userId, startTime, endTime) ==
  \E b \in BookingIds(V) :
    /\ V.bookings[b].user_id = userId
    /\ V.bookings[b].status = "CONFIRMED"
    /\ conferences[V.bookings[b].conference_name].start_time < endTime
    /\ conferences[V.bookings[b].conference_name].end_time > startTime

\* the conflict query with closed intervals: <= and >= for < and >
hasConflictingBookingClosed(V, userId, startTime, endTime) ==
  \E b \in BookingIds(V) :
    /\ V.bookings[b].user_id = userId
    /\ V.bookings[b].status \in {"CONFIRMED", "WAITLISTED"}
    /\ conferences[V.bookings[b].conference_name].start_time <= endTime
    /\ conferences[V.bookings[b].conference_name].end_time >= startTime

hasConflictingBooking(V, userId, startTime, endTime) ==
  \E b \in BookingIds(V) :
    /\ V.bookings[b].user_id = userId
    /\ V.bookings[b].status \in {"CONFIRMED", "WAITLISTED"}
    /\ conferences[V.bookings[b].conference_name].start_time < endTime
    /\ conferences[V.bookings[b].conference_name].end_time > startTime

\* ------------------------------------------------------------ statements
\* Each returns [ok, v]: ok is FALSE when a table constraint rejects the
\* statement (the driver throws), v is the database after the statement.

\* the INSERT on a bookings table that lacks UNIQUE(conference_name, user_id)
InsertBookingNoUnique(V, id, conferenceName, userId, status, createdAt) ==
  [ok |-> TRUE,
   v |-> [V EXCEPT !.bookings =
            (id :> [conference_name |-> conferenceName,
                    user_id |-> userId,
                    status |-> status,
                    created_at |-> createdAt,
                    confirm_by |-> NULL]) @@ V.bookings]]

\* INSERT INTO bookings ... under UNIQUE(conference_name, user_id)
InsertBooking(V, id, conferenceName, userId, status, createdAt) ==
  IF \E b \in BookingIds(V) :
       /\ V.bookings[b].conference_name = conferenceName
       /\ V.bookings[b].user_id = userId
  THEN [ok |-> FALSE, v |-> V]
  ELSE [ok |-> TRUE,
        v |-> [V EXCEPT !.bookings =
                 (id :> [conference_name |-> conferenceName,
                         user_id |-> userId,
                         status |-> status,
                         created_at |-> createdAt,
                         confirm_by |-> NULL]) @@ V.bookings]]

\* the UPDATE on a conferences table that lacks CHECK (available_slots >= 0)
UpdateAvailableSlotsNoCheck(V, conferenceName, delta) ==
  LET n == V.available_slots[conferenceName] + delta IN
  IF n <= conferences[conferenceName].total_slots
  THEN [ok |-> TRUE, v |-> [V EXCEPT !.available_slots[conferenceName] = n]]
  ELSE [ok |-> FALSE, v |-> V]

\* the UPDATE when a canceled seat is never handed back
UpdateAvailableSlotsNoRelease(V, conferenceName, delta) ==
  LET n == V.available_slots[conferenceName] + (IF delta > 0 THEN 0 ELSE delta) IN
  IF n >= 0 /\ n <= conferences[conferenceName].total_slots
  THEN [ok |-> TRUE, v |-> [V EXCEPT !.available_slots[conferenceName] = n]]
  ELSE [ok |-> FALSE, v |-> V]

\* UPDATE conferences SET available_slots = available_slots + delta under
\* CHECK (available_slots >= 0) and CHECK (available_slots <= total_slots)
UpdateAvailableSlots(V, conferenceName, delta) ==
  LET n == V.available_slots[conferenceName] + delta IN
  IF n >= 0 /\ n <= conferences[conferenceName].total_slots
  THEN [ok |-> TRUE, v |-> [V EXCEPT !.available_slots[conferenceName] = n]]
  ELSE [ok |-> FALSE, v |-> V]

\* the SELECT of the last position with 1 for an empty waitlist
MaxPositionFromOne(V, conferenceName) ==
  IF WaitlistOf(V, conferenceName) = {} THEN 1
  ELSE Max({V.waitlist[b].position : b \in WaitlistOf(V, conferenceName)})

\* SELECT COALESCE(MAX(position), 0) FROM waitlist WHERE conference_name = $1
MaxPosition(V, conferenceName) ==
  IF WaitlistOf(V, conferenceName) = {} THEN 0
  ELSE Max({V.waitlist[b].position : b \in WaitlistOf(V, conferenceName)})

\* the INSERT that stores the position after the one it was given
InsertWaitlistShifted(V, conferenceName, bookingId, position, createdAt) ==
  [ok |-> TRUE,
   v |-> [V EXCEPT !.waitlist =
            (bookingId :> [conference_name |-> conferenceName,
                           booking_id |-> bookingId,
                           position |-> position + 1,
                           created_at |-> createdAt]) @@ V.waitlist]]

\* INSERT INTO waitlist ... under UNIQUE(conference_name, position) and
\* UNIQUE(conference_name, booking_id)
InsertWaitlist(V, conferenceName, bookingId, position, createdAt) ==
  IF \/ bookingId \in DOMAIN V.waitlist
     \/ \E b \in WaitlistOf(V, conferenceName) : V.waitlist[b].position = position
  THEN [ok |-> FALSE, v |-> V]
  ELSE [ok |-> TRUE,
        v |-> [V EXCEPT !.waitlist =
                 (bookingId :> [conference_name |-> conferenceName,
                                booking_id |-> bookingId,
                                position |-> position,
                                created_at |-> createdAt]) @@ V.waitlist]]

\* the UPDATE of the status that never writes confirm_by
UpdateBookingStatusKeepDeadline(V, bookingId, status, clearConfirmBy) ==
  [V EXCEPT !.bookings[bookingId] = [@ EXCEPT !.status = status]]

\* UPDATE bookings SET status = $s [, confirm_by = NULL] WHERE booking_id = $1
UpdateBookingStatus(V, bookingId, status, clearConfirmBy) ==
  [V EXCEPT !.bookings[bookingId] =
     [@ EXCEPT !.status = status,
               !.confirm_by = IF clearConfirmBy THEN NULL ELSE @]]

\* UPDATE bookings SET confirm_by = $1 WHERE booking_id = $2
UpdateConfirmBy(V, bookingId, confirmBy) ==
  IF bookingId \in BookingIds(V)
  THEN [V EXCEPT !.bookings[bookingId].confirm_by = confirmBy]
  ELSE V

\* DELETE FROM waitlist WHERE booking_id = $1
DeleteWaitlist(V, bookingId) ==
  [V EXCEPT !.waitlist = Restrict(@, DOMAIN @ \ {bookingId})]

\* the SELECT of processNextInWaitlist ordered the wrong way round
NextInWaitlistLast(V, conferenceName) ==
  IF WaitlistOf(V, conferenceName) = {} THEN NULL
  ELSE CHOOSE b \in WaitlistOf(V, conferenceName) :
         \A o \in WaitlistOf(V, conferenceName) :
           V.waitlist[b].position >= V.waitlist[o].position

\* the SELECT of processNextInWaitlist: the row with the lowest position
NextInWaitlist(V, conferenceName) ==
  IF WaitlistOf(V, conferenceName) = {} THEN NULL
  ELSE CHOOSE b \in WaitlistOf(V, conferenceName) :
         \A o \in WaitlistOf(V, conferenceName) :
           V.waitlist[b].position <= V.waitlist[o].position

processNextInWaitlist(V, conferenceName, now) ==
  LET nextBooking == NextInWaitlist(V, conferenceName) IN
  IF nextBooking = NULL THEN V
  ELSE UpdateConfirmBy(V, nextBooking, now + GracePeriod)

\* the bookings the two statements of removeUserFromAllWaitlists select
OtherWaitlisted(V, userId, excludeConference) ==
  {b \in BookingIds(V) :
     /\ V.bookings[b].user_id = userId
     /\ V.bookings[b].status = "WAITLISTED"
     /\ V.bookings[b].conference_name # excludeConference}

\* removeUserFromAllWaitlists, first statement: DELETE FROM waitlist WHERE
\* booking_id IN (the user's WAITLISTED bookings of other conferences)
DeleteOtherWaitlists(V, userId, excludeConference) ==
  [V EXCEPT !.waitlist =
     Restrict(@, DOMAIN @ \ OtherWaitlisted(V, userId, excludeConference))]

\* removeUserFromAllWaitlists without its second statement
CancelOtherWaitlistedSkipped(V, userId, excludeConference) == V

\* removeUserFromAllWaitlists, second statement: UPDATE bookings SET
\* status = 'CANCELED' on the user's WAITLISTED bookings of other conferences
CancelOtherWaitlisted(V, userId, excludeConference) ==
  LET sel == OtherWaitlisted(V, userId, excludeConference) IN
  [V EXCEPT !.bookings = [b \in DOMAIN @ |->
                            IF b \in sel THEN [@[b] EXCEPT !.status = "CANCELED"]
                            ELSE @[b]]]

\* ROW_NUMBER() OVER (ORDER BY position) of a waitlist row
NewPositionByPosition(V, conferenceName, b) ==
  Cardinality({o \in WaitlistOf(V, conferenceName) :
                 V.waitlist[o].position <= V.waitlist[b].position})

\* ROW_NUMBER() OVER (ORDER BY created_at) of a waitlist row
NewPosition(V, conferenceName, b) ==
  Cardinality({o \in WaitlistOf(V, conferenceName) :
                 V.waitlist[o].created_at <= V.waitlist[b].created_at})

\* UNIQUE(conference_name, position) is checked row by row: the UPDATE of
\* reorderWaitlist is rejected when a row is written to a position that a
\* row not yet rewritten still holds.  Which rows are written first is the
\* executor's choice.
ReorderCanCollide(V, conferenceName) ==
  \E b, o \in WaitlistOf(V, conferenceName) :
    /\ b # o
    /\ NewPosition(V, conferenceName, b) = V.waitlist[o].position

reorderWaitlist(V, conferenceName) ==
  [V EXCEPT !.waitlist =
     [b \in DOMAIN @ |->
        IF @[b].conference_name = conferenceName
        THEN [@[b] EXCEPT !.position = NewPosition(V, conferenceName, b)]
        ELSE @[b]]]

\* ------------------------------------------------------- service methods
\* A call in progress.  pc names the statement executed next; conference
\* and booking hold the rows the method read into local variables.
NoRow == [status |-> "NONE"]

NoResult == [success |-> FALSE, error |-> "", status |-> "NONE", position |-> 0]

NewTx(op, conferenceName, userId, bookingId) ==
  [op |-> op, pc |-> "begin",
   conference_name |-> conferenceName, user_id |-> userId,
   booking_id |-> bookingId,
   conference |-> [name |-> NoConference], booking |-> NoRow,
   position |-> 0, nextBooking |-> NULL,
   committed |-> FALSE, result |-> NoResult]

Idle == NewTx("none", NoConference, NoUser, NULL)

\* what the caller of a finished call sees
Outcome(t) ==
  [op |-> t.op, conference_name |-> t.conference_name, user_id |-> t.user_id,
   booking_id |-> t.booking_id, result |-> t.result]

NoCall == Outcome(Idle)

\* ROLLBACK and return { success: false, error }
Reject(t, error) ==
  [t EXCEPT !.pc = "done",
            !.result = [success |-> FALSE, error |-> error,
                        status |-> "NONE", position |-> 0]]

Goto(t, pc) == [t EXCEPT !.pc = pc]

\* one statement of bookConference
bookConference(t, V, now, taken) ==
  CASE t.pc = "begin" ->
         LET conference == getConferenceByName(V, t.conference_name) IN
         IF conference.name = NoConference
         THEN [t |-> Reject(t, "Conference not found"), v |-> V]
         ELSE IF ~getUserById(t.user_id)
         THEN [t |-> Reject(t, "User not found"), v |-> V]
         ELSE IF hasConferenceStarted(t.conference_name, now)
         THEN [t |-> Reject(t, "Cannot book conference that has already started"),
               v |-> V]
         ELSE [t |-> [t EXCEPT !.pc = "hasExistingBooking",
                               !.conference = conference],
               v |-> V]
    [] t.pc = "hasExistingBooking" ->
         IF hasExistingBooking(V, t.user_id, t.conference_name)
         THEN [t |-> Reject(t, "User already has a booking for this conference"),
               v |-> V]
         ELSE [t |-> Goto(t, "hasConflictingBooking"), v |-> V]
    [] t.pc = "hasConflictingBooking" ->
         IF hasConflictingBooking(V, t.user_id, t.conference.start_time,
                                  t.conference.end_time)
         THEN [t |-> Reject(t, "User has conflicting booking at this time"),
               v |-> V]
         ELSE [t |-> Goto(t, "insertBooking"), v |-> V]
    [] t.pc = "insertBooking" ->
         LET bookingId == uuidv4(V, taken, t.conference_name, t.user_id)
             status == IF t.conference.available_slots > 0
                       THEN "CONFIRMED" ELSE "WAITLISTED"
             ins == InsertBooking(V, bookingId, t.conference_name, t.user_id,
                                  status, CurrentTimestamp(V, t.conference_name))
         IN IF ~ins.ok
            THEN [t |-> Reject(t, "Failed to book conference"), v |-> V]
            ELSE [t |-> [t EXCEPT !.booking_id = bookingId,
                                  !.pc = IF status = "CONFIRMED"
                                         THEN "updateSlots" ELSE "nextPosition"],
                  v |-> ins.v]
    [] t.pc = "updateSlots" ->
         LET upd == UpdateAvailableSlots(V, t.conference_name, -1) IN
         IF ~upd.ok
         THEN [t |-> Reject(t, "Failed to book conference"), v |-> V]
         ELSE [t |-> Goto(t, "removeUserFromAllWaitlists"), v |-> upd.v]
    [] t.pc = "removeUserFromAllWaitlists" ->
         [t |-> Goto(t, "cancelOtherWaitlisted"),
          v |-> DeleteOtherWaitlists(V, t.user_id, t.conference_name)]
    [] t.pc = "cancelOtherWaitlisted" ->
         [t |-> Goto(t, "commit"),
          v |-> CancelOtherWaitlisted(V, t.user_id, t.conference_name)]
    [] t.pc = "nextPosition" ->
         [t |-> [t EXCEPT !.pc = "insertWaitlist",
                          !.position = MaxPosition(V, t.conference_name) + 1],
          v |-> V]
    [] t.pc = "insertWaitlist" ->
         LET ins == InsertWaitlist(V, t.conference_name, t.booking_id,
                                   t.position, V.bookings[t.booking_id].created_at)
         IN IF ~ins.ok
            THEN [t |-> Reject(t, "Failed to book conference"), v |-> V]
            ELSE [t |-> Goto(t, "commit"), v |-> ins.v]
    [] t.pc = "commit" ->
         [t |-> [t EXCEPT !.pc = "done", !.committed = TRUE,
                          !.result = [success |-> TRUE, error |-> "",
                                      status |-> V.bookings[t.booking_id].status,
                                      position |-> t.position]],
          v |-> V]
    [] OTHER -> [t |-> t, v |-> V]

\* booking.status !== 'WAITLISTED' in confirmWaitlistBooking
NotWaitlisted(booking) == booking.status # "WAITLISTED"

\* the deadline check that also rejects at the deadline itself
DeadlinePassedInclusive(booking, now) ==
  booking.confirm_by # NULL /\ now >= booking.confirm_by

\* booking.confirm_by && new Date() > new Date(booking.confirm_by)
DeadlinePassed(booking, now) ==
  booking.confirm_by # NULL /\ now > booking.confirm_by

\* confirmWaitlistBooking without its check of available_slots
NoSlotsAvailableUnchecked(booking) == FALSE

\* booking.available_slots <= 0 in confirmWaitlistBooking
NoSlotsAvailable(booking) == booking.available_slots <= 0

\* cancelBooking without its check for a canceled booking
AlreadyCanceledUnchecked(booking) == FALSE

\* booking.status === 'CANCELED' in cancelBooking
AlreadyCanceled(booking) == booking.status = "CANCELED"

\* the SELECT of confirmWaitlistBooking and cancelBooking: bookings joined
\* with conferences
SelectBooking(V, bookingId) ==
  IF bookingId \in BookingIds(V)
  THEN [status |-> V.bookings[bookingId].status,
        conference_name |-> V.bookings[bookingId].conference_name,
        user_id |-> V.bookings[bookingId].user_id,
        confirm_by |-> V.bookings[bookingId].confirm_by,
        available_slots |-> V.available_slots[V.bookings[bookingId].conference_name],
        start_time |-> conferences[V.bookings[bookingId].conference_name].start_time]
  ELSE NoRow

\* one statement of confirmWaitlistBooking
confirmWaitlistBooking(t, V, now) ==
  CASE t.pc = "begin" ->
         LET booking == SelectBooking(V, t.booking_id) IN
         IF booking = NoRow
         THEN [t |-> Reject(t, "Booking not found"), v |-> V]
         ELSE IF NotWaitlisted(booking)
         THEN [t |-> Reject(t, "Booking is not in waitlisted status"), v |-> V]
         ELSE IF booking.start_time <= now
         THEN [t |-> Reject(t, "Cannot confirm booking for conference that has already started"),
               v |-> V]
         ELSE IF DeadlinePassed(booking, now)
         THEN [t |-> Reject(t, "Confirmation deadline has passed"), v |-> V]
         ELSE IF NoSlotsAvailable(booking)
         THEN [t |-> Reject(t, "No slots available to confirm booking"), v |-> V]
         ELSE [t |-> [t EXCEPT !.pc = "updateStatus", !.booking = booking,
                               !.conference_name = booking.conference_name,
                               !.user_id = booking.user_id],
               v |-> V]
    [] t.pc = "updateStatus" ->
         [t |-> Goto(t, "updateSlots"),
          v |-> UpdateBookingStatus(V, t.booking_id, "CONFIRMED", TRUE)]
    [] t.pc = "updateSlots" ->
         LET upd == UpdateAvailableSlots(V, t.conference_name, -1) IN
         IF ~upd.ok
         THEN [t |-> Reject(t, "Failed to confirm booking"), v |-> V]
         ELSE [t |-> Goto(t, "deleteWaitlist"), v |-> upd.v]
    [] t.pc = "deleteWaitlist" ->
         [t |-> Goto(t, "removeUserFromAllWaitlists"),
          v |-> DeleteWaitlist(V, t.booking_id)]
    [] t.pc = "removeUserFromAllWaitlists" ->
         [t |-> Goto(t, "cancelOtherWaitlisted"),
          v |-> DeleteOtherWaitlists(V, t.user_id, t.conference_name)]
    [] t.pc = "cancelOtherWaitlisted" ->
         [t |-> Goto(t, "processNextSelect"),
          v |-> CancelOtherWaitlisted(V, t.user_id, t.conference_name)]
    [] t.pc = "processNextSelect" ->
         LET nextBooking == NextInWaitlist(V, t.conference_name) IN
         [t |-> [t EXCEPT !.nextBooking = nextBooking,
                          !.pc = IF nextBooking = NULL THEN "commit"
                                 ELSE "processNextUpdate"],
          v |-> V]
    [] t.pc = "processNextUpdate" ->
         [t |-> Goto(t, "commit"),
          v |-> UpdateConfirmBy(V, t.nextBooking, now + GracePeriod)]
    [] t.pc = "commit" ->
         [t |-> [t EXCEPT !.pc = "done", !.committed = TRUE,
                          !.result = [success |-> TRUE, error |-> "",
                                      status |-> "CONFIRMED", position |-> 0]],
          v |-> V]
    [] OTHER -> [t |-> t, v |-> V]

\* one statement of cancelBooking; collide says whether the executor of
\* the reorder UPDATE writes a row onto a position still held
cancelBooking(t, V, now, collide) ==
  CASE t.pc = "begin" ->
         LET booking == SelectBooking(V, t.booking_id) IN
         IF booking = NoRow
         THEN [t |-> Reject(t, "Booking not found"), v |-> V]
         ELSE IF AlreadyCanceled(booking)
         THEN [t |-> Reject(t, "Booking is already canceled"), v |-> V]
         ELSE IF booking.start_time <= now
         THEN [t |-> Reject(t, "Cannot cancel booking for conference that has already started"),
               v |-> V]
         ELSE [t |-> [t EXCEPT !.pc = "updateStatus", !.booking = booking,
                               !.conference_name = booking.conference_name,
                               !.user_id = booking.user_id],
               v |-> V]
    [] t.pc = "updateStatus" ->
         [t |-> Goto(t, IF t.booking.status = "CONFIRMED" THEN "updateSlots"
                        ELSE IF t.booking.status = "WAITLISTED"
                        THEN "deleteWaitlist" ELSE "commit"),
          v |-> UpdateBookingStatus(V, t.booking_id, "CANCELED", FALSE)]
    [] t.pc = "updateSlots" ->
         LET upd == UpdateAvailableSlots(V, t.conference_name, 1) IN
         IF ~upd.ok
         THEN [t |-> Reject(t, "Failed to cancel booking"), v |-> V]
         ELSE [t |-> Goto(t, "processNextSelect"), v |-> upd.v]
    [] t.pc = "processNextSelect" ->
         LET nextBooking == NextInWaitlist(V, t.conference_name) IN
         [t |-> [t EXCEPT !.nextBooking = nextBooking,
                          !.pc = IF nextBooking = NULL THEN "commit"
                                 ELSE "processNextUpdate"],
          v |-> V]
    [] t.pc = "processNextUpdate" ->
         [t |-> Goto(t, "commit"),
          v |-> UpdateConfirmBy(V, t.nextBooking, now + GracePeriod)]
    [] t.pc = "deleteWaitlist" ->
         [t |-> Goto(t, "reorderWaitlist"),
          v |-> DeleteWaitlist(V, t.booking_id)]
    [] t.pc = "reorderWaitlist" ->
         IF collide /\ ReorderCanCollide(V, t.conference_name)
         THEN [t |-> Reject(t, "Failed to cancel booking"), v |-> V]
         ELSE [t |-> Goto(t, "commit"),
               v |-> reorderWaitlist(V, t.conference_name)]
    [] t.pc = "commit" ->
         [t |-> [t EXCEPT !.pc = "done", !.committed = TRUE,
                          !.result = [success |-> TRUE, error |-> "",
                                      status |-> "CANCELED", position |-> 0]],
          v |-> V]
    [] OTHER -> [t |-> t, v |-> V]

\* one statement of whichever method t is a call of
Statement(t, V, now, taken, collide) ==
  CASE t.op = "book" -> bookConference(t, V, now, taken)
    [] t.op = "confirm" -> confirmWaitlistBooking(t, V, now)
    [] t.op = "cancel" -> cancelBooking(t, V, now, collide)
    [] OTHER -> [t |-> t, v |-> V]

\* a transaction whose writes stay when it ends without COMMIT
EndTransactionNoRollback(t, V, V0) == V

\* the committed database once call t has returned: its last view V after
\* COMMIT, the committed database V0 without its writes after ROLLBACK
EndTransaction(t, V, V0) == IF t.committed THEN V ELSE V0

\* a call run from BEGIN to its return with no other transaction in
\* flight
RECURSIVE RunTx(_, _, _, _, _)
RunTx(t, V, V0, now, collide) ==
  IF t.pc = "done"
  THEN [t |-> t, db |-> EndTransaction(t, V, V0)]
  ELSE LET s == Statement(t, V, now, {}, collide)
       IN RunTx(s.t, s.v, V0, now, collide)

Call(t, V, now, collide) == RunTx(t, V, V, now, collide)

\* ------------------------------------------------------------ the sweeps
\* the rows the first SELECT of handleExpiredWaitlistBookings returns
ExpiredBookings(V, now) ==
  {b \in BookingIds(V) :
     /\ V.bookings[b].status = "WAITLISTED"
     /\ V.bookings[b].confirm_by # NULL
     /\ V.bookings[b].confirm_by < now}

\* the sweep without its UPDATE of the position
UpdatePositionSkipped(V, bookingId, position) == V

\* UPDATE waitlist SET position = $1 WHERE booking_id = $2
UpdatePosition(V, bookingId, position) ==
  IF bookingId \in DOMAIN V.waitlist
  THEN [V EXCEPT !.waitlist[bookingId].position = position]
  ELSE V

\* the body of the for loop of handleExpiredWaitlistBookings
ExpireOne(V, b, now) ==
  LET c == V.bookings[b].conference_name
      newPosition == MaxPosition(V, c) + 1
      moved == UpdatePosition(V, b, newPosition)
      cleared == UpdateConfirmBy(moved, b, NULL)
  IN processNextInWaitlist(cleared, c, now)

\* the loop over the selected rows, in the order the SELECT returned them
RECURSIVE ExpireAll(_, _, _)
ExpireAll(V, rows, now) ==
  IF rows = <<>> THEN V
  ELSE ExpireAll(ExpireOne(V, Head(rows), now), Tail(rows), now)

handleExpiredWaitlistBookings(V, rows, now) == ExpireAll(V, rows, now)

\* the loop body without its DELETE FROM waitlist
AutoCancelOneKeepRows(V, c) ==
  [V EXCEPT
     !.bookings = [b \in DOMAIN @ |->
                     IF @[b].conference_name = c /\ @[b].status = "WAITLISTED"
                     THEN [@[b] EXCEPT !.status = "CANCELED"]
                     ELSE @[b]]]

\* the loop body whose UPDATE lacks AND status = 'WAITLISTED'
AutoCancelOneAnyStatus(V, c) ==
  [V EXCEPT
     !.bookings = [b \in DOMAIN @ |->
                     IF @[b].conference_name = c
                     THEN [@[b] EXCEPT !.status = "CANCELED"]
                     ELSE @[b]],
     !.waitlist = Restrict(@, DOMAIN @ \ WaitlistOf(V, c))]

\* the body of the for loop of autoCancelForStartedConferences
AutoCancelOne(V, c) ==
  [V EXCEPT
     !.bookings = [b \in DOMAIN @ |->
                     IF @[b].conference_name = c /\ @[b].status = "WAITLISTED"
                     THEN [@[b] EXCEPT !.status = "CANCELED"]
                     ELSE @[b]],
     !.waitlist = Restrict(@, DOMAIN @ \ WaitlistOf(V, c))]

RECURSIVE AutoCancelAll(_, _)
AutoCancelAll(V, started) ==
  IF started = {} THEN V
  ELSE LET c == Min(started)
       IN AutoCancelAll(AutoCancelOne(V, c), started \ {c})

\* one pass, all in one transaction: fail is the started conference at
\* which a statement of the loop throws (NoConference when none does), and
\* then the catch block rolls the whole pass back
autoCancelForStartedConferences(V, now, fail) ==
  IF fail = NoConference
  THEN AutoCancelAll(V, getStartedConferences(now))
  ELSE V

\* ---------------------------------------------------------------- state
VARIABLES
  now,         \* the clock, in hours
  db,          \* the committed database
  lastCall,    \* the call that returned last, with its result
  phase,       \* "serial" while calls run one at a time
  proc,        \* the two concurrent calls
  ov,          \* per concurrent call, the rows it wrote and has not committed
  db0,         \* the database when the concurrent calls began
  setup        \* calls made before the concurrent calls begin

vars == <<now, db, lastCall, phase, proc, ov, db0, setup>>

Procs == {1, 2}

EmptyOverlay ==
  [available_slots |-> <<>>, bookings |-> <<>>, waitlist |-> <<>>, deleted |-> {}]

Init ==
  /\ now = 0
  /\ db = EmptyDb
  /\ lastCall = NoCall
  /\ phase = "serial"
  /\ proc = [p \in Procs |-> Idle]
  /\ ov = [p \in Procs |-> EmptyOverlay]
  /\ db0 = EmptyDb
  /\ setup = 0

\* ----------------------------------------- calls executed one at a time
\* the route handler is free to take the next request once it has sent
\* the response of the last one
Ready == phase = "serial" /\ lastCall = NoCall

Serial(t, collide) ==
  /\ Ready
  /\ LET r == Call(t, db, now, collide) IN
       /\ db' = r.db
       /\ lastCall' = Outcome(r.t)
  /\ UNCHANGED <<now, phase, proc, ov, db0>>

Book ==
  /\ Cardinality(BookingIds(db)) < MaxBookings
  /\ \E c \in Confs \cup {NoConference}, u \in Clients \cup {NoUser} :
       Serial(NewTx("book", c, u, NULL), FALSE)

Confirm ==
  \E b \in BookingIds(db) \cup {NULL} :
    Serial(NewTx("confirm", NoConference, NoUser, b), FALSE)

Cancel ==
  \E b \in BookingIds(db) \cup {NULL}, collide \in BOOLEAN :
    Serial(NewTx("cancel", NoConference, NoUser, b), collide)

ExpirySweep ==
  /\ Ready
  /\ \E rows \in Orderings(ExpiredBookings(db, now)) :
       db' = handleExpiredWaitlistBookings(db, rows, now)
  /\ lastCall' = [NoCall EXCEPT !.op = "expirySweep"]
  /\ UNCHANGED <<now, phase, proc, ov, db0>>

StartedSweep ==
  /\ Ready
  /\ \E fail \in getStartedConferences(now) \cup {NoConference} :
       /\ db' = autoCancelForStartedConferences(db, now, fail)
       /\ lastCall' =
            [NoCall EXCEPT
               !.op = "startedSweep",
               !.conference_name = fail,
               !.result.error =
                  IF fail = NoConference THEN ""
                  ELSE "Error in autoCancelForStartedConferences"]
  /\ UNCHANGED <<now, phase, proc, ov, db0>>

Tick ==
  /\ Ready
  /\ now < MaxTime
  /\ now' = now + 1
  /\ UNCHANGED <<db, lastCall, phase, proc, ov, db0>>

\* res.status(...).json(result): the response leaves, the result is gone
Respond ==
  /\ phase = "serial"
  /\ lastCall # NoCall
  /\ lastCall' = NoCall
  /\ UNCHANGED <<now, db, phase, proc, ov, db0>>

NextSerial ==
  /\ \/ Book
     \/ Confirm
     \/ Cancel
     \/ ExpirySweep
     \/ StartedSweep
     \/ Tick
     \/ Respond
  /\ UNCHANGED setup

Spec == Init /\ [][NextSerial]_vars

\* ------------------------------------- one waitlist, every user a client
\* The same calls and sweeps, one at a time, with every user of the users
\* table sending requests and every booking made on the conference that
\* starts last: its waitlist is the longest the bookings bound allows and
\* stays open while deadlines pass.
LastConference ==
  CHOOSE c \in Confs :
    \A d \in Confs : conferences[d].start_time <= conferences[c].start_time

BookLast ==
  /\ Cardinality(BookingIds(db)) < MaxBookings
  /\ \E u \in Users : Serial(NewTx("book", LastConference, u, NULL), FALSE)

NextQueue ==
  /\ \/ BookLast
     \/ Confirm
     \/ Cancel
     \/ ExpirySweep
     \/ StartedSweep
     \/ Tick
     \/ Respond
  /\ UNCHANGED setup

SpecQueue == Init /\ [][NextQueue]_vars

\* --------------------------------------------- the sweeps as cron jobs
\* The same calls and sweeps, one at a time, with the clients booking the
\* conference that starts last and the clock running until it has started,
\* so that deadlines pass before the start and the start itself is reached.
\* Both sweeps are cron jobs and the clock is the wall clock: each comes
\* round again however many requests arrive in between.  In the model a
\* sweep or a tick waits for the response of the last call (Ready), which
\* every request interrupts, so their fairness is strong fairness of the
\* action; a pass of the started sweep counts when it commits.
BookLastAsClient ==
  /\ Cardinality(BookingIds(db)) < MaxBookings
  /\ \E u \in Clients : Serial(NewTx("book", LastConference, u, NULL), FALSE)

TickToLastStart ==
  /\ Ready
  /\ now < conferences[LastConference].start_time
  /\ now' = now + 1
  /\ UNCHANGED <<db, lastCall, phase, proc, ov, db0>>

StartedSweepCommits == StartedSweep /\ lastCall'.result.error = ""

NextLive ==
  /\ \/ BookLastAsClient
     \/ Confirm
     \/ Cancel
     \/ ExpirySweep
     \/ StartedSweep
     \/ TickToLastStart
     \/ Respond
  /\ UNCHANGED setup

SweepFairness ==
  /\ WF_vars(Respond /\ UNCHANGED setup)
  /\ SF_vars(TickToLastStart /\ UNCHANGED setup)
  /\ SF_vars(ExpirySweep /\ UNCHANGED setup)
  /\ SF_vars(StartedSweepCommits /\ UNCHANGED setup)

SpecLive == Init /\ [][NextLive]_vars /\ SweepFairness

\* ------------------------------------------ two calls executed together
\* Each call runs in its own transaction on its own pooled client.  The
\* database is PostgreSQL at its default isolation level READ COMMITTED:
\* a statement sees what is committed plus what its own transaction wrote,
\* a row written by a transaction is locked until that transaction ends,
\* and a statement that needs a locked row or a unique key another
\* transaction has written waits for that transaction to end.

\* the database as the statements of call p see it
View(p) ==
  [available_slots |->
     [c \in Confs |-> IF c \in DOMAIN ov[p].available_slots
                      THEN ov[p].available_slots[c]
                      ELSE db.available_slots[c]],
   bookings |-> ov[p].bookings @@ db.bookings,
   waitlist |-> Restrict(ov[p].waitlist @@ db.waitlist,
                         (DOMAIN ov[p].waitlist \cup DOMAIN db.waitlist)
                           \ ov[p].deleted)]

Other(p) == CHOOSE q \in Procs : q # p

\* the row locks and unique-index entries call p holds
Held(p) ==
  LET o == ov[p] IN
    {<<"conferences", c>> : c \in DOMAIN o.available_slots}
    \cup {<<"bookings", b>> : b \in DOMAIN o.bookings}
    \cup {<<"bookings_key", o.bookings[b].conference_name, o.bookings[b].user_id>> :
            b \in DOMAIN o.bookings}
    \cup {<<"waitlist", b>> : b \in DOMAIN o.waitlist \cup o.deleted}
    \cup {<<"waitlist_key", o.waitlist[b].conference_name, o.waitlist[b].position>> :
            b \in DOMAIN o.waitlist}
    \cup {<<"waitlist_key", db.waitlist[b].conference_name, db.waitlist[b].position>> :
            b \in (DOMAIN o.waitlist \cup o.deleted) \cap DOMAIN db.waitlist}

\* the row locks and unique-index entries the next statement of t takes
Needed(t, V) ==
  CASE t.pc = "insertBooking" ->
         {<<"bookings_key", t.conference_name, t.user_id>>}
    [] t.pc = "updateSlots" -> {<<"conferences", t.conference_name>>}
    [] t.pc = "updateStatus" -> {<<"bookings", t.booking_id>>}
    [] t.pc = "insertWaitlist" ->
         {<<"waitlist_key", t.conference_name, t.position>>}
    [] t.pc = "deleteWaitlist" ->
         {<<"waitlist", b>> : b \in {t.booking_id} \cap DOMAIN V.waitlist}
    [] t.pc = "removeUserFromAllWaitlists" ->
         {<<"waitlist", b>> :
            b \in OtherWaitlisted(V, t.user_id, t.conference_name)
                    \cap DOMAIN V.waitlist}
    [] t.pc = "cancelOtherWaitlisted" ->
         {<<"bookings", b>> :
            b \in OtherWaitlisted(V, t.user_id, t.conference_name)}
    [] t.pc = "processNextUpdate" -> {<<"bookings", t.nextBooking>>}
    [] t.pc = "reorderWaitlist" ->
         {<<"waitlist", b>> : b \in WaitlistOf(V, t.conference_name)}
         \cup {<<"waitlist_key", t.conference_name,
                 NewPosition(V, t.conference_name, b)>> :
                 b \in WaitlistOf(V, t.conference_name)}
    [] OTHER -> {}

Blocked(p) ==
  /\ proc[p].pc # "done"
  /\ Needed(proc[p], View(p)) \cap Held(Other(p)) # {}

\* identifiers the other call has inserted and not committed
Taken(p) == DOMAIN ov[Other(p)].bookings \ BookingIds(db)

\* what call p has written once its next statement turned view V into W
Written(p, t, V, W) ==
  LET need == Needed(t, V)
      cs == DOMAIN ov[p].available_slots
              \cup {c \in Confs : <<"conferences", c>> \in need}
      bs == DOMAIN ov[p].bookings
              \cup {b \in BookingIds(V) : <<"bookings", b>> \in need}
              \cup (BookingIds(W) \ BookingIds(V))
      ws == DOMAIN ov[p].waitlist \cup ov[p].deleted
              \cup {b \in DOMAIN V.waitlist : <<"waitlist", b>> \in need}
              \cup (DOMAIN W.waitlist \ DOMAIN V.waitlist)
  IN [available_slots |-> Restrict(W.available_slots, cs),
      bookings |-> Restrict(W.bookings, bs),
      waitlist |-> Restrict(W.waitlist, ws \cap DOMAIN W.waitlist),
      deleted |-> ws \ DOMAIN W.waitlist]

\* the calls two clients can send against database V
Calls(V) ==
  {NewTx("book", c, u, NULL) : c \in Confs, u \in Clients}
  \cup {NewTx("confirm", NoConference, NoUser, b) : b \in BookingIds(V)}
  \cup {NewTx("cancel", NoConference, NoUser, b) : b \in BookingIds(V)}

\* the two clients are interchangeable: the call of client 1 is the one
\* that comes first in a fixed order of the calls
CallOrder(t) ==
  CASE t.op = "book" -> PairId(t.conference_name, t.user_id)
    [] t.op = "confirm" -> 1000 + t.booking_id
    [] OTHER -> 2000 + t.booking_id

Begin ==
  /\ Ready
  /\ \E t1, t2 \in Calls(db) :
       /\ CallOrder(t1) <= CallOrder(t2)
       /\ proc' = [p \in Procs |-> IF p = 1 THEN t1 ELSE t2]
  /\ phase' = "concurrent"
  /\ db0' = db
  /\ setup' = MaxSetup
  /\ UNCHANGED <<now, db, lastCall, ov>>

\* call p executes its next statement
Step(p) ==
  /\ phase = "concurrent"
  /\ proc[p].pc # "done"
  /\ ~Blocked(p)
  /\ \E collide \in IF proc[p].pc = "reorderWaitlist" THEN BOOLEAN ELSE {FALSE} :
       LET V == View(p)
           s == Statement(proc[p], V, now, Taken(p), collide)
       IN /\ proc' = [proc EXCEPT ![p] = s.t]
          /\ IF s.t.pc = "done"
             THEN /\ db' = EndTransaction(s.t, s.v, db)
                  /\ ov' = [ov EXCEPT ![p] = EmptyOverlay]
             ELSE /\ db' = db
                  /\ ov' = [ov EXCEPT ![p] = Written(p, proc[p], V, s.v)]
  /\ UNCHANGED <<now, lastCall, phase, db0, setup>>

\* the text of the catch block of each method
Failed(op) ==
  CASE op = "book" -> "Failed to book conference"
    [] op = "confirm" -> "Failed to confirm booking"
    [] OTHER -> "Failed to cancel booking"

\* each call waits for a lock the other holds: the deadlock detector ends
\* one of the two statements with an error
Deadlock(p) ==
  /\ phase = "concurrent"
  /\ Blocked(p)
  /\ Blocked(Other(p))
  /\ proc' = [proc EXCEPT ![p] = Reject(proc[p], Failed(proc[p].op))]
  /\ ov' = [ov EXCEPT ![p] = EmptyOverlay]
  /\ UNCHANGED <<now, db, lastCall, phase, db0, setup>>

\* the calls that bring the database to where the two calls meet; setup
\* counts those that committed
Setup ==
  /\ setup < MaxSetup
  /\ \/ Book
     \/ Confirm
     \/ Cancel
  /\ setup' = IF lastCall'.result.success THEN setup + 1 ELSE setup

NextConc ==
  \/ Setup
  \/ Respond /\ UNCHANGED setup
  \/ Begin
  \/ \E p \in Procs : Step(p)
  \/ \E p \in Procs : Deadlock(p)

SpecConc == Init /\ [][NextConc]_vars

\* ================================================================ claims
ConfirmedOf(V, c) ==
  {b \in BookingIds(V) :
     V.bookings[b].conference_name = c /\ V.bookings[b].status = "CONFIRMED"}

CanceledOf(V, c) ==
  {b \in BookingIds(V) :
     V.bookings[b].conference_name = c /\ V.bookings[b].status = "CANCELED"}

Positions(V, c) == {V.waitlist[b].position : b \in WaitlistOf(V, c)}

BothDone ==
  /\ phase = "concurrent"
  /\ \A p \in Procs : proc[p].pc = "done"

\* the preconditions of book: the conference and the user exist, the
\* conference has not started, the user holds no booking of it that is
\* not CANCELED and no active booking that overlaps it in time
BookPreconditions(V, c, u, t) ==
  /\ c \in Confs
  /\ u \in Users
  /\ ~hasConferenceStarted(c, t)
  /\ ~hasExistingBooking(V, u, c)
  /\ ~hasConflictingBooking(V, u, conferences[c].start_time,
                            conferences[c].end_time)

\* this step is the call bookConference(c, u) returning
BookReturns(c, u) ==
  /\ Ready
  /\ lastCall'.op = "book"
  /\ lastCall'.conference_name = c
  /\ lastCall'.user_id = u

\* C1: with the calls and sweeps executed one at a time, every conference
\* has available_slots = total_slots - (number of its CONFIRMED bookings)
\* after every committed operation.
C1_SlotsMatchConfirmed ==
  \A c \in Confs :
    db.available_slots[c] =
      conferences[c].total_slots - Cardinality(ConfirmedOf(db, c))

\* a waitlisted booking was confirmed into the seat a cancel had freed,
\* and the conference is full again
C1_Witness ==
  /\ lastCall.op = "confirm"
  /\ lastCall.result.success
  /\ db.available_slots[lastCall.conference_name] = 0
  /\ CanceledOf(db, lastCall.conference_name) # {}

\* C2: with the operations executed one at a time, the waitlist positions
\* of each conference are exactly 1..N, N the number of its WAITLISTED
\* bookings, without duplicates or gaps.
C2_PositionsDense ==
  \A c \in Confs :
    /\ Positions(db, c) = 1..Cardinality(WaitlistOf(db, c))
    /\ Cardinality(WaitlistOf(db, c)) =
         Cardinality({b \in BookingIds(db) :
                        /\ db.bookings[b].conference_name = c
                        /\ db.bookings[b].status = "WAITLISTED"})

\* C3: in every reachable state, every (user, conference) pair has at most
\* one booking whose status is not CANCELED.
C3_OneActiveBookingPerPair ==
  \A u \in Users, c \in Confs :
    Cardinality({b \in BookingIds(db) :
                   /\ db.bookings[b].user_id = u
                   /\ db.bookings[b].conference_name = c
                   /\ db.bookings[b].status # "CANCELED"}) <= 1

\* two clients booked the same conference for the same user at once, both
\* passed the existing-booking check, and the unique index turned the
\* second INSERT down
C3_Witness ==
  /\ BothDone
  /\ \A p \in Procs : proc[p].op = "book"
  /\ proc[1].conference_name = proc[2].conference_name
  /\ proc[1].user_id = proc[2].user_id
  /\ \E p \in Procs :
       /\ proc[p].result.success
       /\ proc[Other(p)].result.error = "Failed to book conference"

\* two calls of bookConference by different users on a conference that had
\* one seat left when they began
LastSeatRace(c) ==
  /\ phase = "concurrent"
  /\ \A p \in Procs : proc[p].op = "book" /\ proc[p].conference_name = c
  /\ proc[1].user_id # proc[2].user_id
  /\ db0.available_slots[c] = 1

\* C4: for two concurrent bookConference calls by different users on a
\* conference with available_slots = 1, under every interleaving at most
\* one call ends CONFIRMED, available_slots never goes below 0 and the
\* number of CONFIRMED bookings never exceeds total_slots.
C4_LastSeatNotOverbooked ==
  \A c \in Confs :
    LastSeatRace(c) =>
      /\ db.available_slots[c] >= 0
      /\ \A p \in Procs : View(p).available_slots[c] >= 0
      /\ Cardinality(ConfirmedOf(db, c)) <= conferences[c].total_slots
      /\ Cardinality({p \in Procs : /\ proc[p].pc = "done"
                                    /\ proc[p].result.success
                                    /\ proc[p].result.status = "CONFIRMED"}) <= 1

\* both calls read available_slots = 1 and inserted a CONFIRMED booking;
\* one committed, the UPDATE of the other was turned down by the CHECK
C4_Witness ==
  \E c \in Confs :
    /\ LastSeatRace(c)
    /\ BothDone
    /\ \E p \in Procs :
         /\ proc[p].result.success
         /\ proc[p].result.status = "CONFIRMED"
         /\ proc[Other(p)].conference.available_slots = 1
         /\ proc[Other(p)].result.error = "Failed to book conference"

\* the call a finished transaction record was started from
OriginalCall(t) ==
  IF t.op = "book"
  THEN NewTx("book", t.conference_name, t.user_id, NULL)
  ELSE NewTx(t.op, NoConference, NoUser, t.booking_id)

\* the conference a call is about, in database V
ConferenceOfCall(t, V) ==
  IF t.op = "book" THEN t.conference_name
  ELSE V.bookings[t.booking_id].conference_name

\* statuses, available_slots and waitlist positions of a database
Observable(V) ==
  [available_slots |-> V.available_slots,
   status |-> [b \in BookingIds(V) |-> V.bookings[b].status],
   position |-> [b \in DOMAIN V.waitlist |-> V.waitlist[b].position]]

\* what a result says apart from the wording of a failure
Verdict(result) ==
  [success |-> result.success, status |-> result.status,
   position |-> result.position]

\* the results and final state of the two calls run one after the other,
\* the call of client p first
SerialRun(p, c1, c2) ==
  LET first == Call(OriginalCall(proc[p]), db0, now, c1)
      second == Call(OriginalCall(proc[Other(p)]), first.db, now, c2)
  IN [results |-> [q \in Procs |-> IF q = p THEN Verdict(first.t.result)
                                   ELSE Verdict(second.t.result)],
      final |-> Observable(second.db)]

\* C5: every interleaving of concurrent book, confirm and cancel calls on
\* the same conference yields the results and the final state of some
\* serial execution of the same calls.
C5_Serializable ==
  (/\ BothDone
   /\ ConferenceOfCall(proc[1], db0) = ConferenceOfCall(proc[2], db0))
  => \E p \in Procs, c1, c2 \in BOOLEAN :
       SerialRun(p, c1, c2) =
         [results |-> [q \in Procs |-> Verdict(proc[q].result)],
          final |-> Observable(db)]

\* C6: when confirmWaitlistBooking and cancelBooking run concurrently on
\* the same WAITLISTED booking, the booking ends CANCELED or CONFIRMED, the
\* ledger matches (available_slots = total_slots - count(CONFIRMED)) and
\* the booking has no waitlist entry.
C6_ConfirmCancelRace ==
  (/\ BothDone
   /\ proc[1].op = "confirm"
   /\ proc[2].op = "cancel"
   /\ proc[1].booking_id = proc[2].booking_id
   /\ db0.bookings[proc[1].booking_id].status = "WAITLISTED")
  => LET b == proc[1].booking_id
         c == db0.bookings[b].conference_name
     IN /\ db.bookings[b].status \in {"CANCELED", "CONFIRMED", "WAITLISTED"}
        /\ db.available_slots[c] =
             conferences[c].total_slots - Cardinality(ConfirmedOf(db, c))
        /\ (db.bookings[b].status # "WAITLISTED" => b \notin DOMAIN db.waitlist)

\* C7: with the operations executed one at a time, a waitlist row exists
\* for a booking exactly when the booking is WAITLISTED.
C7_WaitlistRowIffWaitlisted ==
  /\ DOMAIN db.waitlist \subseteq BookingIds(db)
  /\ \A b \in BookingIds(db) :
       b \in DOMAIN db.waitlist <=> db.bookings[b].status = "WAITLISTED"

\* the started-conference sweep has run over a conference that holds a
\* CANCELED booking and no waitlist row
C7_Witness ==
  /\ lastCall.op = "startedSweep"
  /\ lastCall.result.error = ""
  /\ \E c \in getStartedConferences(now) :
       /\ CanceledOf(db, c) # {}
       /\ ConfirmedOf(db, c) # {}
       /\ WaitlistOf(db, c) = {}

\* C8: CANCELED is terminal: no operation changes the status of a CANCELED
\* booking, and confirm and cancel called on it return a failure.
C8_CanceledIsTerminal ==
  [][\A b \in BookingIds(db) :
       db.bookings[b].status = "CANCELED" =>
         /\ b \in BookingIds(db')
         /\ db'.bookings[b].status = "CANCELED"
         /\ (/\ Ready
             /\ lastCall'.op \in {"confirm", "cancel"}
             /\ lastCall'.booking_id = b) => ~lastCall'.result.success]_vars

\* cancelBooking was called on a CANCELED booking of a conference that has
\* not started, and returned the already-canceled failure
C8_Witness ==
  /\ lastCall.op = "cancel"
  /\ lastCall.result.error = "Booking is already canceled"
  /\ lastCall.booking_id \in BookingIds(db)
  /\ db.bookings[lastCall.booking_id].status = "CANCELED"
  /\ ~hasConferenceStarted(db.bookings[lastCall.booking_id].conference_name, now)

\* C9: bookConference on a conference with available_slots = 0, all
\* preconditions met, returns WAITLISTED with position = current waitlist
\* size + 1.
C9_FullConferenceWaitlists ==
  [][\A c \in Confs, u \in Users :
       (/\ BookReturns(c, u)
        /\ BookPreconditions(db, c, u, now)
        /\ db.available_slots[c] = 0)
       => /\ lastCall'.result.success
          /\ lastCall'.result.status = "WAITLISTED"
          /\ lastCall'.result.position = Cardinality(WaitlistOf(db, c)) + 1]_vars

\* C10: bookConference on a conference with available_slots > 0, all
\* preconditions met, creates the booking CONFIRMED and decrements
\* available_slots by exactly 1.
C10_FreeSeatConfirms ==
  [][\A c \in Confs, u \in Users :
       (/\ BookReturns(c, u)
        /\ BookPreconditions(db, c, u, now)
        /\ db.available_slots[c] > 0)
       => /\ lastCall'.result.success
          /\ lastCall'.result.status = "CONFIRMED"
          /\ lastCall'.booking_id \in BookingIds(db') \ BookingIds(db)
          /\ db'.bookings[lastCall'.booking_id].status = "CONFIRMED"
          /\ db'.available_slots[c] = db.available_slots[c] - 1]_vars

\* the bookings of conference c held by user u, whatever their status
BookingsOfPair(V, c, u) ==
  {b \in BookingIds(V) :
     V.bookings[b].conference_name = c /\ V.bookings[b].user_id = u}

\* C11: a user whose only booking for a conference is CANCELED can book it
\* again: with the user existing, the conference not started and no time
\* conflict, bookConference returns success and creates a new booking that
\* is CONFIRMED or WAITLISTED.
C11_RebookAfterCancel ==
  [][\A c \in Confs, u \in Users :
       (/\ BookReturns(c, u)
        /\ BookPreconditions(db, c, u, now)
        /\ BookingsOfPair(db, c, u) # {})
       => /\ lastCall'.result.success
          /\ lastCall'.booking_id \in BookingIds(db') \ BookingIds(db)
          /\ db'.bookings[lastCall'.booking_id].status
               \in {"CONFIRMED", "WAITLISTED"}]_vars

\* this step is the call op(bookingId) of confirmWaitlistBooking or
\* cancelBooking returning
Returns(op, bookingId) ==
  /\ Ready
  /\ lastCall'.op = op
  /\ lastCall'.booking_id = bookingId

\* this step is a call returning that seated user u at conference c: a
\* bookConference that returned CONFIRMED or a successful
\* confirmWaitlistBooking
Seats(u, c) ==
  /\ Ready
  /\ lastCall'.result.success
  /\ lastCall'.user_id = u
  /\ lastCall'.conference_name = c
  /\ \/ lastCall'.op = "book" /\ lastCall'.result.status = "CONFIRMED"
     \/ lastCall'.op = "confirm"

\* C12: after a bookConference that returns CONFIRMED or a successful
\* confirmWaitlistBooking, the user holds no WAITLISTED booking on any other
\* conference: each such booking is CANCELED and its waitlist row deleted;
\* the user's CONFIRMED bookings elsewhere and every other user's bookings
\* keep their status.
C12_DisplacedElsewhere ==
  [][\A u \in Users, c \in Confs :
       Seats(u, c) =>
         /\ \A b \in BookingIds(db') :
              (db'.bookings[b].user_id = u /\ db'.bookings[b].conference_name # c)
                => db'.bookings[b].status # "WAITLISTED"
         /\ \A b \in BookingIds(db) :
              /\ b \in BookingIds(db')
              /\ (/\ db.bookings[b].user_id = u
                  /\ db.bookings[b].conference_name # c
                  /\ db.bookings[b].status = "WAITLISTED")
                 => /\ db'.bookings[b].status = "CANCELED"
                    /\ b \notin DOMAIN db'.waitlist
              /\ (/\ db.bookings[b].user_id = u
                  /\ db.bookings[b].conference_name # c
                  /\ db.bookings[b].status = "CONFIRMED")
                 => db'.bookings[b].status = "CONFIRMED"
              /\ db.bookings[b].user_id # u
                 => db'.bookings[b].status = db.bookings[b].status]_vars

\* a bookConference returned CONFIRMED while the user was waitlisted on
\* another conference: that booking is CANCELED and the waitlist it left
\* has no entry at position 1 any more
C12_Witness ==
  /\ lastCall.op = "book"
  /\ lastCall.result.status = "CONFIRMED"
  /\ \E b \in BookingIds(db) :
       /\ db.bookings[b].user_id = lastCall.user_id
       /\ db.bookings[b].conference_name # lastCall.conference_name
       /\ db.bookings[b].status = "CANCELED"
       /\ WaitlistOf(db, db.bookings[b].conference_name) # {}
       /\ 1 \notin Positions(db, db.bookings[b].conference_name)

\* h holds the lowest position of the waitlist of conference c
LowestPosition(V, c, h) ==
  /\ h \in WaitlistOf(V, c)
  /\ \A o \in WaitlistOf(V, c) : V.waitlist[h].position <= V.waitlist[o].position

\* C13: a successful confirmWaitlistBooking sets the booking to CONFIRMED,
\* clears its confirm_by, decrements available_slots by exactly 1 and
\* deletes its waitlist row; afterwards the head of the same conference's
\* waitlist, if any, has confirm_by = now + 1 hour, also when
\* available_slots has just become 0.
C13_ConfirmEffect ==
  [][\A b \in BookingIds(db) :
       (Returns("confirm", b) /\ lastCall'.result.success)
       => LET c == db.bookings[b].conference_name
          IN /\ db'.bookings[b].status = "CONFIRMED"
             /\ db'.bookings[b].confirm_by = NULL
             /\ db'.available_slots[c] = db.available_slots[c] - 1
             /\ b \notin DOMAIN db'.waitlist
             /\ \A head \in BookingIds(db') :
                  LowestPosition(db', c, head) =>
                    db'.bookings[head].confirm_by = now + GracePeriod]_vars

\* a promoted booking was confirmed into the last seat and the next entry
\* of the waitlist was given a deadline although no seat is left
C13_Witness ==
  /\ lastCall.op = "confirm"
  /\ lastCall.result.success
  /\ db.available_slots[lastCall.conference_name] = 0
  /\ \E head \in BookingIds(db) :
       /\ LowestPosition(db, lastCall.conference_name, head)
       /\ db.bookings[head].confirm_by = now + GracePeriod

\* the booking is WAITLISTED on a conference with no seat left
WaitlistedOnFull(V, b) ==
  /\ V.bookings[b].status = "WAITLISTED"
  /\ V.available_slots[V.bookings[b].conference_name] = 0

\* C14 as stated: confirmWaitlistBooking on a WAITLISTED booking whose
\* conference has available_slots = 0 fails with the no-slots result and
\* changes nothing.
C14_NoSlotsResult ==
  [][\A b \in BookingIds(db) :
       (Returns("confirm", b) /\ WaitlistedOnFull(db, b))
       => /\ ~lastCall'.result.success
          /\ lastCall'.result.error = "No slots available to confirm booking"
          /\ db' = db]_vars

\* C14, amended: confirmWaitlistBooking on a WAITLISTED booking whose
\* conference has available_slots = 0 always fails and changes nothing; the
\* result is the no-slots result when the conference has not started and
\* the booking's confirm_by is unset or not passed, also while it holds an
\* unexpired confirm_by.
C14_NoSlotsAfterEarlierChecks ==
  [][\A b \in BookingIds(db) :
       (Returns("confirm", b) /\ WaitlistedOnFull(db, b))
       => /\ ~lastCall'.result.success
          /\ db' = db
          /\ (/\ ~hasConferenceStarted(db.bookings[b].conference_name, now)
              /\ ~DeadlinePassed(db.bookings[b], now))
             => lastCall'.result.error = "No slots available to confirm booking"]_vars

\* confirmWaitlistBooking returned the no-slots result for a booking that
\* holds a confirm_by that has not passed
C14_Witness ==
  /\ lastCall.op = "confirm"
  /\ lastCall.result.error = "No slots available to confirm booking"
  /\ lastCall.booking_id \in BookingIds(db)
  /\ db.bookings[lastCall.booking_id].confirm_by # NULL
  /\ now <= db.bookings[lastCall.booking_id].confirm_by

\* this step is a pass of handleExpiredWaitlistBookings
ExpirySweepReturns ==
  /\ Ready
  /\ lastCall'.op = "expirySweep"

\* the pass treated booking b as expired: it moved its waitlist row
TreatedAsExpired(b) ==
  /\ ExpirySweepReturns
  /\ db'.waitlist[b].position # db.waitlist[b].position

\* C15 as stated: confirmWaitlistBooking rejects a WAITLISTED booking with
\* the deadline-passed result exactly when confirm_by is set and
\* now > confirm_by, and the expiry sweep treats a booking as expired for
\* exactly the same instants.
C15_DeadlineExactly ==
  [][\A b \in BookingIds(db) :
       db.bookings[b].status = "WAITLISTED" =>
         /\ Returns("confirm", b) =>
              (lastCall'.result.error = "Confirmation deadline has passed"
                 <=> (/\ db.bookings[b].confirm_by # NULL
                      /\ now > db.bookings[b].confirm_by))
         /\ (ExpirySweepReturns /\ b \in DOMAIN db.waitlist) =>
              (TreatedAsExpired(b)
                 <=> (/\ db.bookings[b].confirm_by # NULL
                      /\ now > db.bookings[b].confirm_by))]_vars

\* C15, amended: for a WAITLISTED booking of a conference that has not
\* started, confirmWaitlistBooking returns the deadline-passed result
\* exactly when confirm_by is set and now > confirm_by (at now = confirm_by
\* the check passes); the expiry sweep treats a WAITLISTED booking as
\* expired for exactly the same instants.
C15_DeadlineExactlyUnlessStarted ==
  [][\A b \in BookingIds(db) :
       db.bookings[b].status = "WAITLISTED" =>
         /\ (/\ Returns("confirm", b)
             /\ ~hasConferenceStarted(db.bookings[b].conference_name, now)) =>
              (lastCall'.result.error = "Confirmation deadline has passed"
                 <=> (/\ db.bookings[b].confirm_by # NULL
                      /\ now > db.bookings[b].confirm_by))
         /\ (ExpirySweepReturns /\ b \in DOMAIN db.waitlist) =>
              (TreatedAsExpired(b)
                 <=> (/\ db.bookings[b].confirm_by # NULL
                      /\ now > db.bookings[b].confirm_by))]_vars

\* confirmWaitlistBooking returned the deadline-passed result
C15_Witness ==
  /\ lastCall.op = "confirm"
  /\ lastCall.result.error = "Confirmation deadline has passed"

\* C16: cancelBooking on a CONFIRMED booking of a conference that has not
\* started sets it to CANCELED, increments available_slots by exactly 1 and
\* sets confirm_by = now + 1 hour on the booking with the lowest waitlist
\* position of that conference, if any, without changing that booking's
\* status or position.
C16_CancelConfirmedEffect ==
  [][\A b \in BookingIds(db) :
       (/\ Returns("cancel", b)
        /\ db.bookings[b].status = "CONFIRMED"
        /\ ~hasConferenceStarted(db.bookings[b].conference_name, now))
       => LET c == db.bookings[b].conference_name
          IN /\ lastCall'.result.success
             /\ db'.bookings[b].status = "CANCELED"
             /\ db'.available_slots[c] = db.available_slots[c] + 1
             /\ \A head \in BookingIds(db) :
                  LowestPosition(db, c, head) =>
                    /\ db'.bookings[head].confirm_by = now + GracePeriod
                    /\ db'.bookings[head].status = db.bookings[head].status
                    /\ head \in DOMAIN db'.waitlist
                    /\ db'.waitlist[head].position = db.waitlist[head].position]_vars

\* a cancel freed a seat of a conference with two or more waitlist entries
\* and the first of them holds the deadline
C16_Witness ==
  /\ lastCall.op = "cancel"
  /\ lastCall.result.success
  /\ db.available_slots[lastCall.conference_name] > 0
  /\ Cardinality(WaitlistOf(db, lastCall.conference_name)) >= 2
  /\ \E head \in BookingIds(db) :
       /\ LowestPosition(db, lastCall.conference_name, head)
       /\ db.bookings[head].confirm_by = now + GracePeriod

\* C17: cancelBooking on a WAITLISTED booking removes its waitlist row,
\* leaves available_slots unchanged and leaves the remaining entries of
\* that conference with positions exactly 1..N in the relative order they
\* had before the cancel, also when an earlier expiry sweep had moved one
\* of them to the tail.  Stated of the cancels that succeed.
C17_CancelWaitlistedKeepsOrder ==
  [][\A b \in BookingIds(db) :
       (/\ Returns("cancel", b)
        /\ lastCall'.result.success
        /\ db.bookings[b].status = "WAITLISTED")
       => LET c == db.bookings[b].conference_name
              rest == WaitlistOf(db', c)
          IN /\ b \notin DOMAIN db'.waitlist
             /\ db'.available_slots = db.available_slots
             /\ rest = WaitlistOf(db, c) \ {b}
             /\ Positions(db', c) = 1..Cardinality(rest)
             /\ \A x, y \in rest :
                  db.waitlist[x].position < db.waitlist[y].position
                    => db'.waitlist[x].position < db'.waitlist[y].position]_vars

\* the booking rows of a conference, whatever their status
RowsOf(V, c) == {b \in BookingIds(V) : V.bookings[b].conference_name = c}

\* the scenario after book(A): a is the only row of c, CONFIRMED, no seat left
AfterBookA(V, c, a) ==
  /\ conferences[c].total_slots = 1
  /\ RowsOf(V, c) = {a}
  /\ V.bookings[a].status = "CONFIRMED"
  /\ V.available_slots[c] = 0
  /\ WaitlistOf(V, c) = {}

\* the scenario after book(B): b is the only entry of the waitlist of c
AfterBookB(V, c, a, b) ==
  /\ conferences[c].total_slots = 1
  /\ RowsOf(V, c) = {a, b}
  /\ V.bookings[a].status = "CONFIRMED"
  /\ V.bookings[b].status = "WAITLISTED"
  /\ V.bookings[b].confirm_by = NULL
  /\ V.available_slots[c] = 0
  /\ WaitlistOf(V, c) = {b}
  /\ V.waitlist[b].position = 1

\* the scenario after cancel(a): the seat is free and b holds a deadline
AfterCancelA(V, c, a, b) ==
  /\ conferences[c].total_slots = 1
  /\ RowsOf(V, c) = {a, b}
  /\ V.bookings[a].status = "CANCELED"
  /\ V.bookings[b].status = "WAITLISTED"
  /\ V.bookings[b].confirm_by # NULL
  /\ V.available_slots[c] = 1
  /\ WaitlistOf(V, c) = {b}

\* C18: on a conference with total_slots = 1 that has not started:
\* book(A) returns CONFIRMED and available_slots = 0; then book(B) returns
\* WAITLISTED at position 1; then cancel of A's booking makes it CANCELED,
\* available_slots = 1 and gives B's booking a confirm_by; then confirm of
\* B's booking, the deadline not passed, returns CONFIRMED and
\* available_slots = 0.  Each step is stated of the state the step before
\* it leaves.
C18_ScenarioTrace ==
  [][\A c \in Confs :
       /\ \A A \in Users :
            (/\ BookReturns(c, A)
             /\ conferences[c].total_slots = 1
             /\ RowsOf(db, c) = {}
             /\ db.available_slots[c] = 1
             /\ BookPreconditions(db, c, A, now))
            => /\ lastCall'.result.success
               /\ lastCall'.result.status = "CONFIRMED"
               /\ db'.available_slots[c] = 0
               /\ \E a \in BookingIds(db') :
                    AfterBookA(db', c, a) /\ db'.bookings[a].user_id = A
       /\ \A B \in Users : \A a \in BookingIds(db) :
            (/\ BookReturns(c, B)
             /\ AfterBookA(db, c, a)
             /\ BookPreconditions(db, c, B, now))
            => /\ lastCall'.result.success
               /\ lastCall'.result.status = "WAITLISTED"
               /\ lastCall'.result.position = 1
               /\ \E b \in BookingIds(db') :
                    AfterBookB(db', c, a, b) /\ db'.bookings[b].user_id = B
       /\ \A a, b \in BookingIds(db) :
            (/\ Returns("cancel", a)
             /\ AfterBookB(db, c, a, b)
             /\ ~hasConferenceStarted(c, now))
            => /\ lastCall'.result.success
               /\ db'.bookings[a].status = "CANCELED"
               /\ db'.available_slots[c] = 1
               /\ db'.bookings[b].confirm_by # NULL
               /\ AfterCancelA(db', c, a, b)
       /\ \A a, b \in BookingIds(db) :
            (/\ Returns("confirm", b)
             /\ AfterCancelA(db, c, a, b)
             /\ now <= db.bookings[b].confirm_by
             /\ ~hasConferenceStarted(c, now))
            => /\ lastCall'.result.success
               /\ lastCall'.result.status = "CONFIRMED"
               /\ db'.bookings[b].status = "CONFIRMED"
               /\ db'.available_slots[c] = 0]_vars

\* the end of the scenario: the four calls were made in this order on a
\* one-seat conference and the last of them, the confirm, has returned
C18_Witness ==
  /\ lastCall.op = "confirm"
  /\ lastCall.result.success
  /\ lastCall.result.status = "CONFIRMED"
  /\ LET c == lastCall.conference_name
         b == lastCall.booking_id
     IN /\ conferences[c].total_slots = 1
        /\ db.available_slots[c] = 0
        /\ \E a \in BookingIds(db) :
             /\ RowsOf(db, c) = {a, b}
             /\ a < b
             /\ db.bookings[a].status = "CANCELED"
             /\ db.bookings[b].status = "CONFIRMED"

\* the bookings the SELECT of the expiry sweep returns at the clock reading
\* now: WAITLISTED with confirm_by set and in the past
PastDeadline(V, b, t) ==
  /\ V.bookings[b].status = "WAITLISTED"
  /\ V.bookings[b].confirm_by # NULL
  /\ V.bookings[b].confirm_by < t

\* C19: when the only WAITLISTED booking B of a conference has an expired
\* confirm_by and stands at position 1, handleExpiredWaitlistBookings
\* leaves B at position 1 and B ends with a fresh confirm_by.
C19_SoleEntryStaysFirst ==
  [][\A b \in BookingIds(db) :
       (/\ ExpirySweepReturns
        /\ PastDeadline(db, b, now)
        /\ WaitlistOf(db, db.bookings[b].conference_name) = {b}
        /\ db.waitlist[b].position = 1)
       => /\ b \in DOMAIN db'.waitlist
          /\ db'.waitlist[b].position = 1
          /\ db'.bookings[b].confirm_by = now + GracePeriod]_vars

\* the bookings of conference c the expiry sweep selects at the clock
\* reading t
PastDeadlineOf(V, c, t) ==
  {b \in RowsOf(V, c) : PastDeadline(V, b, t)}

\* the highest position of the waitlist of c, 0 when it is empty
LastPosition(V, c) ==
  IF Positions(V, c) = {} THEN 0
  ELSE CHOOSE p \in Positions(V, c) : \A q \in Positions(V, c) : q <= p

\* C20: handleExpiredWaitlistBookings moves every WAITLISTED booking whose
\* confirm_by is set and in the past behind the last position of its
\* conference (to last + 1 when it is the only such booking), clears its
\* confirm_by, and gives the booking that then has the lowest position of
\* that conference a confirm_by of now + 1 hour; with two or more entries
\* that head is a different booking.  No status and no available_slots
\* changes, and afterwards no WAITLISTED booking holds a confirm_by in the
\* past.
C20_ExpirySweepEffect ==
  [][ExpirySweepReturns =>
       /\ \A c \in Confs :
            LET expired == PastDeadlineOf(db, c, now)
                last == LastPosition(db, c)
            IN expired # {} =>
                 /\ expired \subseteq DOMAIN db'.waitlist
                 /\ {db'.waitlist[b].position : b \in expired}
                      = (last + 1)..(last + Cardinality(expired))
                 /\ \A head \in BookingIds(db') :
                      LowestPosition(db', c, head) =>
                        /\ db'.bookings[head].confirm_by = now + GracePeriod
                        /\ (Cardinality(WaitlistOf(db, c)) >= 2
                              /\ Cardinality(expired) = 1)
                             => head \notin expired
                 /\ \A b \in expired :
                      ~LowestPosition(db', c, b)
                        => db'.bookings[b].confirm_by = NULL
       /\ BookingIds(db') = BookingIds(db)
       /\ \A b \in BookingIds(db) :
            db'.bookings[b].status = db.bookings[b].status
       /\ db'.available_slots = db.available_slots
       /\ DOMAIN db'.waitlist = DOMAIN db.waitlist
       /\ \A b \in BookingIds(db') : ~PastDeadline(db', b, now)]_vars

\* a sweep has moved the lapsed head of a waitlist of two behind the other
\* entry, which now holds the deadline
C20_Witness ==
  /\ lastCall.op = "expirySweep"
  /\ \E c \in Confs : \E head, moved \in WaitlistOf(db, c) :
       /\ head # moved
       /\ LowestPosition(db, c, head)
       /\ db.bookings[head].confirm_by = now + GracePeriod
       /\ db.waitlist[moved].position > Cardinality(WaitlistOf(db, c))
       /\ db.bookings[moved].status = "WAITLISTED"
       /\ db.bookings[moved].confirm_by = NULL

\* this step is a pass of autoCancelForStartedConferences that committed
StartedSweepReturns ==
  /\ Ready
  /\ lastCall'.op = "startedSweep"
  /\ lastCall'.result.error = ""

\* C21: autoCancelForStartedConferences, for every conference with
\* start_time <= now, sets every WAITLISTED booking of it to CANCELED and
\* deletes all its waitlist rows, and leaves its CONFIRMED bookings, its
\* available_slots and every booking of the conferences that have not
\* started unchanged.
C21_StartedSweepEffect ==
  [][StartedSweepReturns =>
       /\ BookingIds(db') = BookingIds(db)
       /\ db'.available_slots = db.available_slots
       /\ \A c \in Confs :
            IF conferences[c].start_time <= now
            THEN /\ WaitlistOf(db', c) = {}
                 /\ \A b \in RowsOf(db, c) :
                      IF db.bookings[b].status = "WAITLISTED"
                      THEN db'.bookings[b].status = "CANCELED"
                      ELSE db'.bookings[b] = db.bookings[b]
            ELSE /\ \A b \in RowsOf(db, c) : db'.bookings[b] = db.bookings[b]
                 /\ WaitlistOf(db', c) = WaitlistOf(db, c)
                 /\ \A b \in WaitlistOf(db, c) :
                      db'.waitlist[b] = db.waitlist[b]]_vars

\* a pass has cancelled a promoted waitlisted booking of a started
\* conference next to a CONFIRMED one, while a conference that has not
\* started keeps its booking
C21_Witness ==
  /\ lastCall.op = "startedSweep"
  /\ lastCall.result.error = ""
  /\ \E c, d \in Confs :
       /\ conferences[c].start_time <= now
       /\ now < conferences[d].start_time
       /\ ConfirmedOf(db, c) # {}
       /\ \E b \in CanceledOf(db, c) : db.bookings[b].confirm_by # NULL
       /\ WaitlistOf(db, c) = {}
       /\ ConfirmedOf(db, d) # {}

\* user u holds a CONFIRMED or WAITLISTED booking of a conference other
\* than c whose time window overlaps that of c
HoldsOverlappingElsewhere(V, u, c) ==
  \E b \in BookingIds(V) :
    /\ V.bookings[b].user_id = u
    /\ V.bookings[b].status \in {"CONFIRMED", "WAITLISTED"}
    /\ V.bookings[b].conference_name # c
    /\ hasTimeOverlap(conferences[c].start_time, conferences[c].end_time,
                      conferences[V.bookings[b].conference_name].start_time,
                      conferences[V.bookings[b].conference_name].end_time)

\* C22 as stated: bookConference for a user who holds a CONFIRMED or
\* WAITLISTED booking of another conference that overlaps the requested one
\* fails with the time-conflict result and changes nothing.
C22_TimeConflictResult ==
  [][\A c \in Confs : \A u \in Users :
       (BookReturns(c, u) /\ HoldsOverlappingElsewhere(db, u, c))
       => /\ ~lastCall'.result.success
          /\ lastCall'.result.error = "User has conflicting booking at this time"
          /\ db' = db]_vars

\* C22, amended: such a bookConference always fails and changes nothing;
\* the result is the time-conflict result when the requested conference
\* has not started and the user holds no booking of it that is not
\* CANCELED, the checks that come before the conflict check.
C22_TimeConflictAfterEarlierChecks ==
  [][\A c \in Confs : \A u \in Users :
       (BookReturns(c, u) /\ HoldsOverlappingElsewhere(db, u, c))
       => /\ ~lastCall'.result.success
          /\ db' = db
          /\ (~hasConferenceStarted(c, now) /\ ~hasExistingBooking(db, u, c))
               => lastCall'.result.error
                    = "User has conflicting booking at this time"]_vars

\* a user whose only active booking is WAITLISTED asked for an overlapping
\* conference and got the time-conflict result
C22_Witness ==
  /\ lastCall.op = "book"
  /\ lastCall.result.error = "User has conflicting booking at this time"
  /\ HoldsOverlappingElsewhere(db, lastCall.user_id, lastCall.conference_name)
  /\ \A b \in BookingIds(db) :
       db.bookings[b].user_id = lastCall.user_id
         => db.bookings[b].status # "CONFIRMED"

\* the error texts of the business rules; the texts of the catch blocks
\* ("Failed to ...") are not among them
BusinessErrors ==
  {"Conference not found", "User not found",
   "Cannot book conference that has already started",
   "User already has a booking for this conference",
   "User has conflicting booking at this time",
   "Booking not found", "Booking is not in waitlisted status",
   "Cannot confirm booking for conference that has already started",
   "Confirmation deadline has passed",
   "No slots available to confirm booking",
   "Booking is already canceled",
   "Cannot cancel booking for conference that has already started"}

\* the business rule bookConference(c, u) fails first in database V at
\* clock reading t, "" when it passes them all
BookRuleError(V, c, u, t) ==
  IF c \notin Confs THEN "Conference not found"
  ELSE IF u \notin Users THEN "User not found"
  ELSE IF conferences[c].start_time <= t
  THEN "Cannot book conference that has already started"
  ELSE IF \E b \in BookingsOfPair(V, c, u) : V.bookings[b].status # "CANCELED"
  THEN "User already has a booking for this conference"
  ELSE IF HoldsOverlappingElsewhere(V, u, c)
  THEN "User has conflicting booking at this time"
  ELSE ""

\* the same for confirmWaitlistBooking(b)
ConfirmRuleError(V, b, t) ==
  IF b \notin BookingIds(V) THEN "Booking not found"
  ELSE IF V.bookings[b].status # "WAITLISTED"
  THEN "Booking is not in waitlisted status"
  ELSE IF conferences[V.bookings[b].conference_name].start_time <= t
  THEN "Cannot confirm booking for conference that has already started"
  ELSE IF V.bookings[b].confirm_by # NULL /\ t > V.bookings[b].confirm_by
  THEN "Confirmation deadline has passed"
  ELSE IF V.available_slots[V.bookings[b].conference_name] <= 0
  THEN "No slots available to confirm booking"
  ELSE ""

\* the same for cancelBooking(b)
CancelRuleError(V, b, t) ==
  IF b \notin BookingIds(V) THEN "Booking not found"
  ELSE IF V.bookings[b].status = "CANCELED" THEN "Booking is already canceled"
  ELSE IF conferences[V.bookings[b].conference_name].start_time <= t
  THEN "Cannot cancel booking for conference that has already started"
  ELSE ""

\* the rule the call that returns in this step fails first
RuleError ==
  CASE lastCall'.op = "book" ->
         BookRuleError(db, lastCall'.conference_name, lastCall'.user_id, now)
    [] lastCall'.op = "confirm" -> ConfirmRuleError(db, lastCall'.booking_id, now)
    [] lastCall'.op = "cancel" -> CancelRuleError(db, lastCall'.booking_id, now)
    [] OTHER -> ""

\* C23: every business-rule failure of bookConference,
\* confirmWaitlistBooking and cancelBooking is returned as a result with
\* success = false and the error text of that rule, and leaves bookings,
\* waitlist rows and available_slots as they were; a call that breaks no
\* rule returns none of these texts.
C23_RuleFailuresAreResults ==
  [][(Ready /\ lastCall'.op \in {"book", "confirm", "cancel"}) =>
       IF RuleError # ""
       THEN /\ ~lastCall'.result.success
            /\ lastCall'.result.error = RuleError
            /\ db' = db
       ELSE lastCall'.result.error \notin BusinessErrors]_vars

\* confirmWaitlistBooking was refused on a booking that is CONFIRMED while
\* another booking waits behind it
C23_Witness ==
  /\ lastCall.op = "confirm"
  /\ ~lastCall.result.success
  /\ lastCall.result.error = "Booking is not in waitlisted status"
  /\ lastCall.booking_id \in BookingIds(db)
  /\ db.bookings[lastCall.booking_id].status = "CONFIRMED"
  /\ WaitlistOf(db, db.bookings[lastCall.booking_id].conference_name) # {}

\* the text the catch block of the method returns
CatchText(op) ==
  CASE op = "book" -> "Failed to book conference"
    [] op = "confirm" -> "Failed to confirm booking"
    [] op = "cancel" -> "Failed to cancel booking"
    [] OTHER -> "none"

\* C24: when a statement inside the transaction of bookConference,
\* confirmWaitlistBooking or cancelBooking fails, the call returns
\* success = false and the committed bookings, waitlist rows and
\* available_slots are what they were without it, for a call that runs
\* alone and for a call that runs next to another one.
C24_FailedStatementRollsBack ==
  [][/\ (Ready /\ lastCall'.result.error = CatchText(lastCall'.op))
         => (~lastCall'.result.success /\ db' = db)
     /\ \A p \in Procs :
          (/\ phase = "concurrent"
           /\ proc[p].pc # "done"
           /\ proc'[p].pc = "done"
           /\ proc'[p].result.error = CatchText(proc[p].op))
          => /\ ~proc'[p].result.success
             /\ db' = db
             /\ ov'[p] = EmptyOverlay]_vars

\* a bookConference that had inserted its bookings row failed at the
\* INSERT of its waitlist row next to another call, and the bookings row
\* is not in the database
C24_Witness ==
  /\ BothDone
  /\ \E p \in Procs :
       /\ proc[p].op = "book"
       /\ proc[p].result.error = "Failed to book conference"
       /\ proc[p].position > 0
       /\ proc[p].booking_id \notin BookingIds(db)
       /\ proc[Other(p)].result.success

\* this step is a pass of autoCancelForStartedConferences in which a
\* statement for conference f threw
StartedSweepFailsAt(f) ==
  /\ Ready
  /\ lastCall'.op = "startedSweep"
  /\ lastCall'.result.error # ""
  /\ lastCall'.conference_name = f

\* C25: in one pass of autoCancelForStartedConferences, a failure while
\* processing one started conference does not undo or prevent the
\* cancellation of the WAITLISTED bookings of the other started
\* conferences.
C25_FailureDoesNotStopOthers ==
  [][\A f \in Confs :
       StartedSweepFailsAt(f) =>
         \A c \in Confs \ {f} :
           conferences[c].start_time <= now =>
             \A b \in RowsOf(db, c) :
               db.bookings[b].status = "WAITLISTED"
                 => db'.bookings[b].status = "CANCELED"]_vars

\* the conference-started results of the three operations
StartedErrors ==
  {"Cannot book conference that has already started",
   "Cannot confirm booking for conference that has already started",
   "Cannot cancel booking for conference that has already started"}

\* C26 as stated: once now >= start_time of a conference, bookConference on
\* it and confirmWaitlistBooking and cancelBooking on any of its bookings
\* fail with a conference-started result and change nothing.
C26_StartedResult ==
  [][\A c \in Confs :
       conferences[c].start_time <= now =>
         /\ \A u \in Users :
              BookReturns(c, u)
                => /\ ~lastCall'.result.success
                   /\ lastCall'.result.error \in StartedErrors
                   /\ db' = db
         /\ \A b \in RowsOf(db, c) :
              (Returns("confirm", b) \/ Returns("cancel", b))
                => /\ ~lastCall'.result.success
                   /\ lastCall'.result.error \in StartedErrors
                   /\ db' = db]_vars

\* C26, amended: once now >= start_time of a conference (the instant
\* now = start_time included), bookConference on it and
\* confirmWaitlistBooking and cancelBooking on any of its bookings fail and
\* change nothing; the result is the conference-started result of the
\* operation when the check before it passes: for confirm the booking is
\* WAITLISTED, for cancel it is not CANCELED.  A pass of the
\* started-conference sweep at such an instant leaves the conference
\* without WAITLISTED booking and without waitlist row.
C26_StartedAfterEarlierChecks ==
  [][\A c \in Confs :
       conferences[c].start_time <= now =>
         /\ \A u \in Users :
              BookReturns(c, u)
                => /\ ~lastCall'.result.success
                   /\ lastCall'.result.error
                        = "Cannot book conference that has already started"
                   /\ db' = db
         /\ \A b \in RowsOf(db, c) :
              /\ Returns("confirm", b)
                   => /\ ~lastCall'.result.success
                      /\ db' = db
                      /\ db.bookings[b].status = "WAITLISTED"
                           => lastCall'.result.error
                                = "Cannot confirm booking for conference that has already started"
              /\ Returns("cancel", b)
                   => /\ ~lastCall'.result.success
                      /\ db' = db
                      /\ db.bookings[b].status # "CANCELED"
                           => lastCall'.result.error
                                = "Cannot cancel booking for conference that has already started"
         /\ StartedSweepReturns
              => /\ WaitlistOf(db', c) = {}
                 /\ \A b \in RowsOf(db', c) :
                      db'.bookings[b].status # "WAITLISTED"]_vars

\* at the very instant a conference starts, the cancel of a booking that
\* still waits for it was refused
C26_Witness ==
  /\ lastCall.op = "cancel"
  /\ lastCall.result.error
       = "Cannot cancel booking for conference that has already started"
  /\ lastCall.booking_id \in BookingIds(db)
  /\ db.bookings[lastCall.booking_id].status = "WAITLISTED"
  /\ conferences[db.bookings[lastCall.booking_id].conference_name].start_time
       = now

\* C27: in every reachable state a booking has a non-null confirm_by only
\* if its status is WAITLISTED.
C27_ConfirmByOnlyWaitlisted ==
  \A b \in BookingIds(db) :
    db.bookings[b].confirm_by # NULL => db.bookings[b].status = "WAITLISTED"

\* the two concurrent calls are bookConference calls of two users for the
\* same conference c, which was full when they began, and each user met
\* the preconditions of book then
TwoBooksOnFull(c) ==
  /\ \A p \in Procs : proc[p].op = "book" /\ proc[p].conference_name = c
  /\ proc[1].user_id # proc[2].user_id
  /\ db0.available_slots[c] = 0
  /\ \A p \in Procs : BookPreconditions(db0, c, proc[p].user_id, now)

\* C28: two concurrent bookConference calls on the same full conference
\* both succeed as WAITLISTED under every interleaving, and their waitlist
\* entries get the two positions that follow the last one.
C28_ConcurrentWaitlistPositions ==
  \A c \in Confs :
    (BothDone /\ TwoBooksOnFull(c)) =>
      /\ \A p \in Procs :
           /\ proc[p].result.success
           /\ proc[p].result.status = "WAITLISTED"
           /\ proc[p].booking_id \in WaitlistOf(db, c)
      /\ {db.waitlist[proc[p].booking_id].position : p \in Procs}
           = {LastPosition(db0, c) + 1, LastPosition(db0, c) + 2}

\* C29: a bookConference that returns WAITLISTED has stored its waitlist
\* row at (the highest position among the waitlist rows of the conference
\* before the call) + 1, which is 1 when there was none, and reports that
\* position in its result.
C29_WaitlistedPosition ==
  [][\A c \in Confs : \A u \in Users :
       (/\ BookReturns(c, u)
        /\ lastCall'.result.success
        /\ lastCall'.result.status = "WAITLISTED")
       => \E b \in BookingIds(db') \ BookingIds(db) :
            /\ WaitlistOf(db', c) = WaitlistOf(db, c) \cup {b}
            /\ db'.waitlist[b].position = LastPosition(db, c) + 1
            /\ lastCall'.result.position = db'.waitlist[b].position]_vars

\* a bookConference that found a waitlist returned WAITLISTED at the
\* position after its last one, and its row holds that position
C29_Witness ==
  /\ lastCall.op = "book"
  /\ lastCall.result.status = "WAITLISTED"
  /\ lastCall.result.position >= 2
  /\ \E b \in WaitlistOf(db, lastCall.conference_name) :
       /\ db.bookings[b].user_id = lastCall.user_id
       /\ db.waitlist[b].position = lastCall.result.position

HalfOpenConflict(V, u, c) ==
  \E b \in BookingIds(V) :
    /\ V.bookings[b].user_id = u
    /\ V.bookings[b].status \in {"CONFIRMED", "WAITLISTED"}
    /\ conferences[V.bookings[b].conference_name].start_time
         < conferences[c].end_time
    /\ conferences[c].start_time
         < conferences[V.bookings[b].conference_name].end_time

\* C31: a bookConference that reaches the conflict test returns the
\* time-conflict result exactly when the user holds a CONFIRMED or
\* WAITLISTED booking of a conference d with d.start < c.end and
\* c.start < d.end: a conference that begins when another one of the user
\* ends does not conflict, and a CANCELED booking never does.
C31_HalfOpenConflictTest ==
  [][\A c \in Confs : \A u \in Users :
       (/\ BookReturns(c, u)
        /\ now < conferences[c].start_time
        /\ \A b \in BookingsOfPair(db, c, u) :
             db.bookings[b].status = "CANCELED")
       => (lastCall'.result.error = "User has conflicting booking at this time"
             <=> HalfOpenConflict(db, u, c))]_vars

\* a user who holds an active booking of a conference that ends at hour h
\* and a CANCELED booking of one that overlaps has booked a conference
\* that begins at hour h
C31_Witness ==
  /\ lastCall.op = "book"
  /\ lastCall.result.success
  /\ \E b, x \in BookingIds(db) :
       /\ db.bookings[b].user_id = lastCall.user_id
       /\ db.bookings[b].status \in {"CONFIRMED", "WAITLISTED"}
       /\ conferences[db.bookings[b].conference_name].end_time
            = conferences[lastCall.conference_name].start_time
       /\ db.bookings[x].user_id = lastCall.user_id
       /\ db.bookings[x].status = "CANCELED"
       /\ conferences[db.bookings[x].conference_name].start_time
            < conferences[lastCall.conference_name].end_time
       /\ conferences[lastCall.conference_name].start_time
            < conferences[db.bookings[x].conference_name].end_time

\* the WAITLISTED bookings of conference c that hold a confirm_by
Promoted(V, c) ==
  {b \in RowsOf(V, c) :
     V.bookings[b].status = "WAITLISTED" /\ V.bookings[b].confirm_by # NULL}

\* C32: with the operations executed one at a time, in every reachable
\* state at most one WAITLISTED booking per conference holds a non-null
\* confirm_by, and that booking has the lowest waitlist position of its
\* conference.
C32_OnePromotedAtHead ==
  phase = "serial" =>
    \A c \in Confs :
      /\ Cardinality(Promoted(db, c)) <= 1
      /\ \A b \in Promoted(db, c) : LowestPosition(db, c, b)

\* C33: confirmWaitlistBooking never succeeds for a booking while another
\* booking of the same conference is WAITLISTED at a lower position.
C33_ConfirmInWaitlistOrder ==
  [][\A b \in BookingIds(db) :
       (Returns("confirm", b) /\ lastCall'.result.success)
       => LowestPosition(db, db.bookings[b].conference_name, b)]_vars

\* C34: with the operations executed one at a time, in every reachable
\* state: if a conference that has not started has available_slots > 0, a
\* non-empty waitlist and a CANCELED booking (a seat was freed by a
\* cancel), then the booking at the head of its waitlist holds a non-null
\* confirm_by.
C34_FreedSeatHasClaimant ==
  phase = "serial" =>
    \A c \in Confs :
      (/\ now < conferences[c].start_time
       /\ db.available_slots[c] > 0
       /\ WaitlistOf(db, c) # {}
       /\ CanceledOf(db, c) # {})
      => \A head \in BookingIds(db) :
           LowestPosition(db, c, head) => db.bookings[head].confirm_by # NULL

\* the two concurrent calls are bookConference calls of one user for the
\* different conferences c and d, whose time windows overlap
SameUserBooksOverlapping(c, d) ==
  /\ proc[1].op = "book" /\ proc[1].conference_name = c
  /\ proc[2].op = "book" /\ proc[2].conference_name = d
  /\ proc[1].user_id = proc[2].user_id
  /\ c # d
  /\ hasTimeOverlap(conferences[c].start_time, conferences[c].end_time,
                    conferences[d].start_time, conferences[d].end_time)

\* C35: after two concurrent bookConference calls by the same user on two
\* different conferences with overlapping time windows, under every
\* interleaving the user does not hold an active (CONFIRMED or WAITLISTED)
\* booking of each of the two.
C35_NoOverlapBySameUser ==
  \A c, d \in Confs :
    (BothDone /\ SameUserBooksOverlapping(c, d)) =>
      ~ \E x, y \in BookingIds(db) :
          /\ db.bookings[x].user_id = proc[1].user_id
          /\ db.bookings[y].user_id = proc[1].user_id
          /\ db.bookings[x].conference_name = c
          /\ db.bookings[y].conference_name = d
          /\ db.bookings[x].status \in {"CONFIRMED", "WAITLISTED"}
          /\ db.bookings[y].status \in {"CONFIRMED", "WAITLISTED"}

\* the two concurrent calls are cancelBooking calls on the same booking b,
\* which was CONFIRMED for a conference that had not started when they
\* began
TwoCancelsOfConfirmed(b) ==
  /\ \A p \in Procs : proc[p].op = "cancel" /\ proc[p].booking_id = b
  /\ b \in BookingIds(db0)
  /\ db0.bookings[b].status = "CONFIRMED"
  /\ now < conferences[db0.bookings[b].conference_name].start_time

\* C36: after two concurrent cancelBooking calls on the same CONFIRMED
\* booking, under every interleaving available_slots was incremented
\* exactly once, at most one call reported success, and the number of
\* CONFIRMED bookings plus available_slots equals total_slots.
C36_DoubleCancelFreesOneSeat ==
  \A b \in BookingIds(db0) :
    (BothDone /\ TwoCancelsOfConfirmed(b)) =>
      LET c == db0.bookings[b].conference_name
      IN /\ db.available_slots[c] = db0.available_slots[c] + 1
         /\ ~(proc[1].result.success /\ proc[2].result.success)
         /\ Cardinality(ConfirmedOf(db, c)) + db.available_slots[c]
              = conferences[c].total_slots

\* C37: once a conference has started (now >= start_time), no step changes
\* its set of CONFIRMED bookings or its available_slots, and the only
\* status change a booking of it can make is WAITLISTED to CANCELED.
C37_StartedConferenceFrozen ==
  [][\A c \in Confs :
       conferences[c].start_time <= now =>
         /\ ConfirmedOf(db', c) = ConfirmedOf(db, c)
         /\ db'.available_slots[c] = db.available_slots[c]
         /\ RowsOf(db', c) = RowsOf(db, c)
         /\ \A b \in RowsOf(db, c) :
              db'.bookings[b].status # db.bookings[b].status
                => /\ db.bookings[b].status = "WAITLISTED"
                   /\ db'.bookings[b].status = "CANCELED"]_vars

\* a user who waited for a full conference that has started was seated at
\* another conference, which cancelled the waiting booking; the started
\* conference still has all its seats taken
C37_Witness ==
  /\ lastCall.op \in {"book", "confirm"}
  /\ lastCall.result.success
  /\ now < conferences[lastCall.conference_name].start_time
  /\ \E b \in BookingIds(db) :
       LET c == db.bookings[b].conference_name
       IN /\ db.bookings[b].user_id = lastCall.user_id
          /\ c # lastCall.conference_name
          /\ conferences[c].start_time <= now
          /\ db.bookings[b].status = "CANCELED"
          /\ db.bookings[b].created_at > conferences[c].total_slots
          /\ db.available_slots[c] = 0
          /\ Cardinality(ConfirmedOf(db, c)) = conferences[c].total_slots

\* every identifier a booking of a client on the last conference can carry
ClientBookingIds == {PairId(LastConference, u) : u \in Clients}

WaitsOnStarted(b) ==
  /\ b \in BookingIds(db)
  /\ db.bookings[b].status = "WAITLISTED"
  /\ conferences[db.bookings[b].conference_name].start_time <= now

CanceledOffWaitlist(b) ==
  /\ b \in BookingIds(db)
  /\ db.bookings[b].status = "CANCELED"
  /\ b \notin DOMAIN db.waitlist

WaitsPastDeadline(b) ==
  /\ b \in BookingIds(db)
  /\ db.bookings[b].status = "WAITLISTED"
  /\ db.bookings[b].confirm_by # NULL
  /\ db.bookings[b].confirm_by < now

DeadlineClearedOrLeft(b) ==
  /\ b \in BookingIds(db)
  /\ \/ db.bookings[b].confirm_by = NULL
     \/ db.bookings[b].status # "WAITLISTED"

\* C38: with both sweeps run fairly, every booking that is WAITLISTED on
\* a conference whose start_time has passed is eventually CANCELED with
\* its waitlist row removed, and every WAITLISTED booking whose confirm_by
\* has passed eventually has confirm_by cleared or is no longer WAITLISTED.
C38_SweepsReclaim ==
  \A b \in ClientBookingIds :
    /\ WaitsOnStarted(b) ~> CanceledOffWaitlist(b)
    /\ WaitsPastDeadline(b) ~> DeadlineClearedOrLeft(b)

\* the last conference has started and a pass of the started sweep has
\* committed: two bookings that waited for it are CANCELED and off the
\* waitlist, one of them with a confirm_by that had passed
C38_Witness ==
  /\ lastCall.op = "startedSweep"
  /\ lastCall.result.error = ""
  /\ conferences[LastConference].start_time <= now
  /\ \E b, b2 \in ClientBookingIds :
       /\ b # b2
       /\ CanceledOffWaitlist(b)
       /\ CanceledOffWaitlist(b2)
       /\ db.bookings[b].created_at > conferences[LastConference].total_slots
       /\ db.bookings[b2].created_at > conferences[LastConference].total_slots
       /\ db.bookings[b2].confirm_by # NULL
       /\ db.bookings[b2].confirm_by < now

====
